---------------------------- MODULE Spec2Model ----------------------------
(***************************************************************************)
(* Model of stopwords.bash's Python side:                                  *)
(*   - tests/stopwords_python.py : load_stopwords, filter_stopwords,       *)
(*     count_words, main (the filter CLI);                                 *)
(*   - generate-stopwords-data.py : main (the data generator).             *)
(* Strings are sequences of one-character strings, so that lower(),        *)
(* strip(), split(), the two re.sub passes and sorted() are computed.      *)
(***************************************************************************)
EXTENDS Integers, Sequences, FiniteSets, TLC

(* ------------------------------ bounds -------------------------------- *)

\* longest input text handed to the filter
MaxLen == 5

\* longest word list the corpus returns for the language whose list varies
MaxWords == 2

\* how many times the generator is run in a row
MaxRuns == 2

(* ---------------------------- characters ------------------------------ *)

NL == "\n"

\* the characters input texts are made of
Alphabet == {"a", "s", "S", "'", ",", " "}

\* str.isspace(): what str.strip(), str.split() and the regex class \s
\* treat as whitespace
IsSpace(c) == c \in {" ", NL, "\t"}

\* the regex class \w: letters, digits, underscore
IsWordChar(c) ==
    c \in {"a", "d", "e", "f", "n", "r", "s", "A", "S", "0", "_"}

\* str.lower() on one character
LowerChar(c) ==
    CASE c = "S" -> "s"
      [] c = "A" -> "a"
      [] OTHER   -> c

\* str.lower()
lower(str) == [i \in 1..Len(str) |-> LowerChar(str[i])]

RECURSIVE lstrip(_)
lstrip(str) ==
    IF str # <<>> /\ IsSpace(Head(str)) THEN lstrip(Tail(str)) ELSE str

RECURSIVE rstrip(_)
rstrip(str) ==
    IF str # <<>> /\ IsSpace(str[Len(str)])
    THEN rstrip(SubSeq(str, 1, Len(str) - 1))
    ELSE str

\* str.strip()
strip(str) == rstrip(lstrip(str))

\* str.split() with no argument: split on whitespace runs, never an empty
\* token.  cur is the token being read, acc the tokens already closed.
RECURSIVE SplitFrom(_, _, _)
SplitFrom(str, cur, acc) ==
    IF str = <<>>
    THEN IF cur = <<>> THEN acc ELSE Append(acc, cur)
    ELSE IF IsSpace(Head(str))
         THEN SplitFrom(Tail(str), <<>>,
                        IF cur = <<>> THEN acc ELSE Append(acc, cur))
         ELSE SplitFrom(Tail(str), Append(cur, Head(str)), acc)

split(str) == SplitFrom(str, <<>>, <<>>)

\* the regex 's\b matches at position i: the two characters 's, then a word
\* boundary (s is a word character, so: end of string, or a non-word one)
PossessiveAt(str, i) ==
    /\ i + 1 <= Len(str)
    /\ str[i] = "'"
    /\ str[i + 1] = "s"
    /\ (i + 2 > Len(str) \/ ~IsWordChar(str[i + 2]))

\* re.sub(r"'s\b", ' ', str): leftmost non-overlapping matches
RECURSIVE SubPossessiveFrom(_, _)
SubPossessiveFrom(str, i) ==
    IF i > Len(str) THEN <<>>
    ELSE IF PossessiveAt(str, i)
         THEN <<" ">> \o SubPossessiveFrom(str, i + 2)
         ELSE <<str[i]>> \o SubPossessiveFrom(str, i + 1)

sub_possessive(str) == SubPossessiveFrom(str, 1)

\* mutant of sub_punctuation: the class [^\w\s'] spares the apostrophe
sub_punctuation_sparing_apostrophe(str) ==
    [i \in 1..Len(str) |->
        IF IsWordChar(str[i]) \/ IsSpace(str[i]) \/ str[i] = "'"
        THEN str[i] ELSE " "]

\* re.sub(r'[^\w\s]', ' ', str)
sub_punctuation(str) ==
    [i \in 1..Len(str) |->
        IF IsWordChar(str[i]) \/ IsSpace(str[i]) THEN str[i] ELSE " "]

\* ' '.join(tokens)
RECURSIVE join(_)
join(tokens) ==
    IF tokens = <<>> THEN <<>>
    ELSE IF Len(tokens) = 1 THEN tokens[1]
    ELSE tokens[1] \o <<" ">> \o join(Tail(tokens))


(* ------------------------- the data directory ------------------------- *)

\* language codes (corpus file ids), as strings of characters
De == <<"d", "e">>
En == <<"e", "n">>
Fr == <<"f", "r">>
Languages == {De, En, Fr}

\* a path of the data directory that holds no file
NoFile == [exists |-> FALSE, lines |-> <<>>]

\* a data file holding the given lines (each written newline-terminated)
FileOf(ls) == [exists |-> TRUE, lines |-> ls]

VARIABLES
    files,              \* data/<language>.txt for each language code
    text,               \* the filter's input text
    language,           \* the filter's language code
    keep_punctuation,   \* the filter's option
    fpc,                \* which operation of stopwords_python.py has returned
    ret,                \* what it returned or raised
    prev,               \* the tokens of the run whose output was fed back
    corpus,             \* the NLTK stopwords corpus of the environment
    dirExists,          \* whether the data directory exists
    gpc,                \* the generator's position
    languages,          \* generator: languages
    order,              \* generator: sorted(languages), the loop's iterable
    idx,                \* generator: index in order of the loop's language
    words,              \* generator: words
    pending,            \* generator: words of sorted(words) not yet written
    opened,             \* languages whose file this run opened for writing
    stdout,             \* what the generator printed
    stderr,             \* what the generator wrote to sys.stderr
    status,             \* the generator's exit status, -1 while it runs
    runs,               \* number of the current generator run
    before,             \* the data files when the current run started
    prevStatus          \* exit status of the run before, -1 if none

filterVars == <<text, language, keep_punctuation, fpc, ret, prev>>

genVars == <<corpus, dirExists, gpc, languages, order, idx, words, pending,
             opened, stdout, stderr, status, runs, before, prevStatus>>

vars == <<files, filterVars, genVars>>

(* ------------------------ stopwords_python.py ------------------------- *)

\* os.path.join(script_dir, 'data', f'{language}.txt')
DataFile(lang) == <<"data", lang, ".txt">>

Returned(v) == [exc |-> "None", msg |-> <<>>, value |-> v]
Raised(e, m) == [exc |-> e, msg |-> m]

\* mutant of AddLines: the lines are stripped but not lowercased
RECURSIVE AddLinesNoLower(_, _)
AddLinesNoLower(ls, stopwords) ==
    IF ls = <<>> THEN stopwords
    ELSE AddLinesNoLower(Tail(ls),
                         stopwords \cup {strip(Append(Head(ls), NL))})

\* the set built by the loop "for line in f: stopwords.add(...)"; iterating
\* a text file yields each line with its newline
RECURSIVE AddLines(_, _)
AddLines(ls, stopwords) ==
    IF ls = <<>> THEN stopwords
    ELSE AddLines(Tail(ls),
                  stopwords \cup {lower(strip(Append(Head(ls), NL)))})

load_stopwords(lang, fs) ==
    IF ~fs[lang].exists
    THEN Raised("FileNotFoundError", DataFile(lang))
    ELSE Returned(AddLines(fs[lang].lines, {}))

\* mutant of Tokenize: punctuation is stripped before the possessives
TokenizePunctuationFirst(txt, keep) ==
    IF keep
    THEN split(lower(txt))
    ELSE split(sub_possessive(sub_punctuation(lower(txt))))

\* mutant of Tokenize: punctuation is stripped whatever the option says
TokenizeAlwaysStripping(txt, keep) ==
    split(sub_punctuation(sub_possessive(lower(txt))))

\* the raw token sequence: lines 27-36 (and 48-55) of stopwords_python.py
Tokenize(txt, keep) ==
    IF keep
    THEN split(lower(txt))
    ELSE split(sub_punctuation(sub_possessive(lower(txt))))

\* mutant of Retain: a token that occurred before is dropped
RetainFirstOccurrences(wds, stopwords) ==
    LET first == {i \in DOMAIN wds :
                  /\ wds[i] # <<>>
                  /\ wds[i] \notin stopwords
                  /\ \A j \in 1..(i - 1) : wds[j] # wds[i]}
        Nth(k) == CHOOSE i \in first : Cardinality({j \in first : j <= i}) = k
    IN  [k \in 1..Cardinality(first) |-> wds[Nth(k)]]

\* [word for word in words if word and word not in stopwords]
Retain(wds, stopwords) ==
    SelectSeq(wds, LAMBDA word : word # <<>> /\ word \notin stopwords)

filter_stopwords(txt, lang, keep, fs) ==
    LET stopwords == load_stopwords(lang, fs)
    IN  IF stopwords.exc # "None" THEN stopwords
        ELSE Returned(Retain(Tokenize(txt, keep), stopwords.value))

\* mutant of CountLoop: counts[word] = 1, no increment
RECURSIVE CountLoopNoIncrement(_, _, _)
CountLoopNoIncrement(wds, stopwords, counts) ==
    IF wds = <<>> THEN counts
    ELSE LET word == Head(wds)
             next == IF word # <<>> /\ word \notin stopwords
                     THEN IF word \in DOMAIN counts
                          THEN [counts EXCEPT ![word] = 1]
                          ELSE counts @@ (word :> 1)
                     ELSE counts
         IN  CountLoopNoIncrement(Tail(wds), stopwords, next)

\* the loop "for word in words: ... counts[word] = counts.get(word, 0) + 1";
\* the dict is a function from its keys to their counts
RECURSIVE CountLoop(_, _, _)
CountLoop(wds, stopwords, counts) ==
    IF wds = <<>> THEN counts
    ELSE LET word == Head(wds)
             next == IF word # <<>> /\ word \notin stopwords
                     THEN IF word \in DOMAIN counts
                          THEN [counts EXCEPT ![word] = @ + 1]
                          ELSE counts @@ (word :> 1)
                     ELSE counts
         IN  CountLoop(Tail(wds), stopwords, next)

\* the empty dict
EmptyDict == [w \in {} |-> 0]

count_words(txt, lang, keep, fs) ==
    LET stopwords == load_stopwords(lang, fs)
    IN  IF stopwords.exc # "None" THEN stopwords
        ELSE Returned(CountLoop(Tokenize(txt, keep), stopwords.value,
                                EmptyDict))

(* --------------------- generate-stopwords-data.py --------------------- *)

\* ord(c): the code point of a character
Ord(c) ==
    CASE c = "\t" -> 9
      [] c = NL   -> 10
      [] c = " "  -> 32
      [] c = "'"  -> 39
      [] c = ","  -> 44
      [] c = "0"  -> 48
      [] c = "A"  -> 65
      [] c = "S"  -> 83
      [] c = "_"  -> 95
      [] c = "a"  -> 97
      [] c = "d"  -> 100
      [] c = "e"  -> 101
      [] c = "f"  -> 102
      [] c = "n"  -> 110
      [] c = "r"  -> 114
      [] c = "s"  -> 115

\* u < v for two Python strings: the first differing code point decides, a
\* proper prefix comes first
RECURSIVE StrLess(_, _)
StrLess(u, v) ==
    IF v = <<>> THEN FALSE
    ELSE IF u = <<>> THEN TRUE
    ELSE IF Head(u) # Head(v) THEN Ord(Head(u)) < Ord(Head(v))
    ELSE StrLess(Tail(u), Tail(v))

\* x put into the sorted list q, after the elements not greater than it
RECURSIVE Insert(_, _)
Insert(x, q) ==
    IF q = <<>> THEN <<x>>
    ELSE IF StrLess(x, Head(q)) THEN <<x>> \o q
    ELSE <<Head(q)>> \o Insert(x, Tail(q))

RECURSIVE SortFrom(_, _)
SortFrom(q, acc) ==
    IF q = <<>> THEN acc ELSE SortFrom(Tail(q), Insert(Head(q), acc))

\* mutant of sorted: the list is left in the order it came in
unsorted(q) == q

\* sorted(q) on a list of strings (stable, ascending)
sorted(q) == SortFrom(q, <<>>)

\* mutant of OpenForWriting: mode 'a', the file keeps its lines
OpenForAppending(f) == FileOf(f.lines)

\* open(output_file, 'w'): the file is created, or truncated
OpenForWriting(f) == FileOf(<<>>)

\* f.write(f"{word}\n")
WriteLine(f, word) == FileOf(Append(f.lines, word))

CorpusNotFound == "Error: NLTK stopwords corpus not found."
DownloadHint == "Please download it with: python -m nltk.downloader stopwords"

\* f"Error: {str(e)}" for the I/O errors of the model
OtherError == "Error: OSError"

\* what the two except clauses write to sys.stderr
ErrorOutput(exc) ==
    IF exc = "LookupError"
    THEN <<CorpusNotFound, DownloadHint>>
    ELSE <<OtherError>>

\* mutant of Except: the error is reported and the loop goes on with the
\* next language
ExceptAndContinue(exc) ==
    /\ stderr' = stderr \o ErrorOutput(exc)
    /\ status' = IF idx = 0 THEN 1 ELSE status
    /\ gpc' = IF idx = 0 THEN "exit" ELSE "for"

\* an exception raised inside main's try block: lines 34-40
Except(exc) ==
    /\ stderr' = stderr \o ErrorOutput(exc)
    /\ status' = 1
    /\ gpc' = "exit"

\* the language of the loop's current iteration
Current == order[idx]

(* ---------------------------- initial states -------------------------- *)

RECURSIVE SeqsUpTo(_, _)
SeqsUpTo(S, n) ==
    IF n = 0 THEN {<<>>}
    ELSE LET shorter == SeqsUpTo(S, n - 1)
         IN  shorter \cup {Append(q, x) : q \in shorter, x \in S}

Texts == SeqsUpTo(Alphabet, MaxLen)

\* data directories the filter is run against: line casing, padding,
\* duplicates, an entry with punctuation, an empty file, a missing file
DataDirs ==
    { [l \in Languages |->
         CASE l = En -> FileOf(<< <<"a">> >>)
           [] l = Fr -> FileOf(<< <<" ", "S", " ">>, <<"a", ",">>, <<"s">> >>)
           [] OTHER  -> NoFile],
      [l \in Languages |->
         CASE l = En -> FileOf(<< <<"A">>, <<"s">>, <<"a">> >>)
           [] l = Fr -> FileOf(<<>>)
           [] OTHER  -> NoFile] }

\* words a corpus may hold
Words == {<<"a">>, <<"S">>, <<"a", "s">>}

\* the corpora the generator is run against: the nltk package missing, the
\* corpus not downloaded, and corpora exposing no, one or three languages
Corpora ==
    { [installed |-> FALSE, available |-> FALSE, fileids |-> <<>>,
       words |-> [l \in Languages |-> <<>>]],
      [installed |-> TRUE, available |-> FALSE, fileids |-> <<>>,
       words |-> [l \in Languages |-> <<>>]] }
    \cup
    { [installed |-> TRUE, available |-> TRUE, fileids |-> ids,
       words |-> [l \in Languages |->
                    CASE l = En -> IF \E i \in DOMAIN ids : ids[i] = En
                                   THEN ws ELSE <<>>
                      [] l = De -> IF \E i \in DOMAIN ids : ids[i] = De
                                   THEN << <<"s">>, <<"a">> >> ELSE <<>>
                      [] OTHER  -> IF \E i \in DOMAIN ids : ids[i] = Fr
                                   THEN << <<"a">> >> ELSE <<>>]] :
        ids \in {<<>>, <<En>>, <<Fr, En, De>>},
        ws \in SeqsUpTo(Words, MaxWords) }

\* the data directory before the first run: absent, or holding old files
OldDirs ==
    { [exists |-> FALSE, files |-> [l \in Languages |-> NoFile]],
      [exists |-> TRUE,
       files |-> [l \in Languages |->
                    CASE l = En -> FileOf(<< <<"s">>, <<"S">> >>)
                      [] l = Fr -> FileOf(<< <<"a">> >>)
                      [] OTHER  -> NoFile]] }

\* the generator about to start a run
GenStart ==
    /\ gpc = "import"
    /\ languages = <<>>
    /\ order = <<>>
    /\ idx = 0
    /\ words = <<>>
    /\ pending = <<>>
    /\ opened = <<>>
    /\ stdout = <<>>
    /\ stderr = <<>>
    /\ status = -1

\* the filter not in use
FilterIdle ==
    /\ text = <<>>
    /\ language = En
    /\ keep_punctuation = FALSE
    /\ fpc = "start"
    /\ ret = Returned(<<>>)
    /\ prev = <<>>

FilterInit ==
    /\ text \in Texts
    /\ language \in Languages
    /\ keep_punctuation \in BOOLEAN
    /\ files \in DataDirs
    /\ fpc = "start"
    /\ ret = Returned(<<>>)
    /\ prev = <<>>
    /\ corpus = CHOOSE c \in Corpora : ~c.installed
    /\ dirExists = TRUE
    /\ GenStart
    /\ runs = 1
    /\ before = files
    /\ prevStatus = -1

GenInit ==
    /\ corpus \in Corpora
    /\ \E d \in OldDirs : dirExists = d.exists /\ files = d.files
    /\ GenStart
    /\ runs = 1
    /\ before = files
    /\ prevStatus = -1
    /\ FilterIdle

(* ----------------- the operations of stopwords_python.py --------------- *)

\* a caller loads the stopword set
LoadStopwords ==
    /\ fpc = "start"
    /\ fpc' = "loaded"
    /\ ret' = load_stopwords(language, files)
    /\ UNCHANGED <<files, text, language, keep_punctuation, prev, genVars>>

\* a caller filters the text
FilterStopwords ==
    /\ fpc = "start"
    /\ fpc' = "filtered"
    /\ ret' = filter_stopwords(text, language, keep_punctuation, files)
    /\ UNCHANGED <<files, text, language, keep_punctuation, prev, genVars>>

\* a caller counts the words of the text
CountWords ==
    /\ fpc = "start"
    /\ fpc' = "counted"
    /\ ret' = count_words(text, language, keep_punctuation, files)
    /\ UNCHANGED <<files, text, language, keep_punctuation, prev, genVars>>

\* main() prints ' '.join(filtered); that output is filtered again
Refilter ==
    /\ fpc = "filtered"
    /\ ret.exc = "None"
    /\ prev' = ret.value
    /\ text' = join(ret.value)
    /\ fpc' = "refiltered"
    /\ ret' = filter_stopwords(text', language, keep_punctuation, files)
    /\ UNCHANGED <<files, language, keep_punctuation, genVars>>

FilterNext == LoadStopwords \/ FilterStopwords \/ CountWords \/ Refilter

SpecFilter == FilterInit /\ [][FilterNext]_vars

(* ------------------- the steps of the data generator ------------------ *)

\* line 4: from nltk.corpus import stopwords, outside main's try block; a
\* missing package ends the process with a traceback and status 1
Import ==
    /\ gpc = "import"
    /\ IF corpus.installed
       THEN /\ gpc' = "makedirs"
            /\ UNCHANGED <<stderr, status>>
       ELSE /\ gpc' = "exit"
            /\ stderr' = <<"Traceback: ModuleNotFoundError: No module named 'nltk'">>
            /\ status' = 1
    /\ UNCHANGED <<files, filterVars, corpus, dirExists, languages, order,
                   idx, words, pending, opened, stdout, runs, before,
                   prevStatus>>

\* lines 13-14: os.makedirs(data_dir, exist_ok=True) and the first message
MakeDirs ==
    /\ gpc = "makedirs"
    /\ \/ /\ dirExists' = TRUE
          /\ stdout' = Append(stdout, <<"Creating stopwords data files in", "data">>)
          /\ gpc' = "fileids"
          /\ UNCHANGED <<stderr, status>>
       \/ /\ Except("OSError")
          /\ UNCHANGED <<dirExists, stdout>>
    /\ UNCHANGED <<files, filterVars, corpus, languages, order, idx, words,
                   pending, opened, runs, before, prevStatus>>

\* line 17: languages = stopwords.fileids(), which loads the corpus and
\* raises LookupError when it is not found; line 20: sorted(languages)
FileIds ==
    /\ gpc = "fileids"
    /\ IF corpus.available
       THEN /\ languages' = corpus.fileids
            /\ order' = sorted(corpus.fileids)
            /\ gpc' = "for"
            /\ UNCHANGED <<stderr, status>>
       ELSE /\ Except("LookupError")
            /\ UNCHANGED <<languages, order>>
    /\ UNCHANGED <<files, filterVars, corpus, dirExists, idx, words, pending,
                   opened, stdout, runs, before, prevStatus>>

\* line 20: the for loop takes the next language, or ends
For ==
    /\ gpc = "for"
    /\ IF idx < Len(order)
       THEN idx' = idx + 1 /\ gpc' = "fetch"
       ELSE idx' = idx /\ gpc' = "summary"
    /\ UNCHANGED <<files, filterVars, corpus, dirExists, languages, order,
                   words, pending, opened, stdout, stderr, status, runs,
                   before, prevStatus>>

\* lines 21-22: words = stopwords.words(language)
Fetch ==
    /\ gpc = "fetch"
    /\ \/ /\ words' = corpus.words[Current]
          /\ gpc' = "open"
          /\ UNCHANGED <<stderr, status>>
       \/ /\ \E exc \in {"LookupError", "OSError"} : Except(exc)
          /\ UNCHANGED words
    /\ UNCHANGED <<files, filterVars, corpus, dirExists, languages, order,
                   idx, pending, opened, stdout, runs, before, prevStatus>>

\* line 25: open(output_file, 'w', encoding='utf-8'); line 26: sorted(words)
Open ==
    /\ gpc = "open"
    /\ \/ /\ files' = [files EXCEPT ![Current] = OpenForWriting(@)]
          /\ opened' = Append(opened, Current)
          /\ pending' = sorted(words)
          /\ gpc' = "write"
          /\ UNCHANGED <<stderr, status>>
       \/ /\ Except("OSError")
          /\ UNCHANGED <<files, opened, pending>>
    /\ UNCHANGED <<filterVars, corpus, dirExists, languages, order, idx,
                   words, stdout, runs, before, prevStatus>>

\* lines 26-27: one word is written; a failed write leaves the file with
\* the words written so far
Write ==
    /\ gpc = "write"
    /\ pending # <<>>
    /\ \/ /\ files' = [files EXCEPT ![Current] = WriteLine(@, Head(pending))]
          /\ pending' = Tail(pending)
          /\ UNCHANGED <<gpc, stderr, status>>
       \/ /\ Except("OSError")
          /\ UNCHANGED <<files, pending>>
    /\ UNCHANGED <<filterVars, corpus, dirExists, languages, order, idx,
                   words, opened, stdout, runs, before, prevStatus>>

\* line 29: the file is closed and the language reported
Created ==
    /\ gpc = "write"
    /\ pending = <<>>
    /\ stdout' = Append(stdout, <<"Created", Current, Len(words)>>)
    /\ gpc' = "for"
    /\ UNCHANGED <<files, filterVars, corpus, dirExists, languages, order,
                   idx, words, pending, opened, stderr, status, runs, before,
                   prevStatus>>

\* lines 31-32: the summary; main returns and the process exits with 0
Summary ==
    /\ gpc = "summary"
    /\ stdout' = stdout \o
                   << <<"Successfully generated", Len(languages)>>,
                      <<"Available languages", sorted(languages)>> >>
    /\ status' = 0
    /\ gpc' = "exit"
    /\ UNCHANGED <<files, filterVars, corpus, dirExists, languages, order,
                   idx, words, pending, opened, stderr, runs, before,
                   prevStatus>>

\* the generator is started again, on the data directory the run left
Rerun ==
    /\ gpc = "exit"
    /\ runs < MaxRuns
    /\ runs' = runs + 1
    /\ before' = files
    /\ prevStatus' = status
    /\ gpc' = "import"
    /\ languages' = <<>>
    /\ order' = <<>>
    /\ idx' = 0
    /\ words' = <<>>
    /\ pending' = <<>>
    /\ opened' = <<>>
    /\ stdout' = <<>>
    /\ stderr' = <<>>
    /\ status' = -1
    /\ UNCHANGED <<files, filterVars, corpus, dirExists>>

GenNext ==
    \/ Import
    \/ MakeDirs
    \/ FileIds
    \/ For
    \/ Fetch
    \/ Open
    \/ Write
    \/ Created
    \/ Summary
    \/ Rerun

SpecGen == GenInit /\ [][GenNext]_vars

(* ----------------- reference notions used by the claims --------------- *)

\* the maximal runs of non-whitespace characters of str, left to right
MaximalRuns(str) ==
    LET n == Len(str)
        starts == {i \in 1..n :
                     ~IsSpace(str[i]) /\ (i = 1 \/ IsSpace(str[i - 1]))}
        EndOf(i) == CHOOSE j \in i..n :
                       /\ \A k \in i..j : ~IsSpace(str[k])
                       /\ (j = n \/ IsSpace(str[j + 1]))
        Nth(k) == CHOOSE i \in starts :
                     Cardinality({x \in starts : x <= i}) = k
    IN  [k \in 1..Cardinality(starts) |-> SubSeq(str, Nth(k), EndOf(Nth(k)))]

\* q is p with the elements at the indices in keep, in their order
IsSubsequenceAt(q, p, keep) ==
    /\ Len(q) = Cardinality(keep)
    /\ \A i \in keep : q[Cardinality({j \in keep : j <= i})] = p[i]

\* the number of occurrences of x in the sequence q
Occurrences(q, x) == Cardinality({i \in DOMAIN q : q[i] = x})

RECURSIVE SumValues(_)
SumValues(f) ==
    IF DOMAIN f = {} THEN 0
    ELSE LET k == CHOOSE k \in DOMAIN f : TRUE
         IN  f[k] + SumValues([x \in DOMAIN f \ {k} |-> f[x]])

\* a line of a data file, lowercased, without its leading and trailing
\* whitespace
EntryOf(line) ==
    LET l == lower(line)
        solid == {i \in DOMAIN l : ~IsSpace(l[i])}
    IN  IF solid = {} THEN <<>>
        ELSE SubSeq(l, CHOOSE i \in solid : \A j \in solid : i <= j,
                       CHOOSE i \in solid : \A j \in solid : j <= i)

\* the lowercased text with every possessive suffix ('s before the end of
\* the text or before a non-word character) and every other punctuation
\* character blanked
Depossessed(txt) ==
    LET t == lower(txt)
        n == Len(t)
        Suffix(i) == /\ i > 1
                     /\ t[i] = "s"
                     /\ t[i - 1] = "'"
                     /\ (i = n \/ ~IsWordChar(t[i + 1]))
    IN  [i \in 1..n |->
           IF IsSpace(t[i]) \/ (IsWordChar(t[i]) /\ ~Suffix(i))
           THEN t[i] ELSE " "]

IsWord(str) == str # <<>> /\ \A i \in DOMAIN str : IsWordChar(str[i])

FileExists == files[language].exists
StopwordSet == {EntryOf(files[language].lines[i]) :
                   i \in DOMAIN files[language].lines}
Filtered == fpc \in {"filtered", "refiltered"} /\ ret.exc = "None"

(* ------------------------------ claims -------------------------------- *)

\* C1: count_words agrees with filter_stopwords on the same arguments: the
\* map's keys are the distinct tokens of the filtered sequence, each count
\* is the number of occurrences of its key there, and the counts sum to the
\* length of the filtered sequence.
C1_CountAgreesWithFilter ==
    (fpc = "counted" /\ FileExists) =>
        LET filtered ==
                filter_stopwords(text, language, keep_punctuation, files).value
            counts == ret.value
        IN  /\ ret.exc = "None"
            /\ DOMAIN counts = {filtered[i] : i \in DOMAIN filtered}
            /\ \A w \in DOMAIN counts : counts[w] = Occurrences(filtered, w)
            /\ SumValues(counts) = Len(filtered)

\* a text with a repeated surviving token and a stopword has been counted
C1_Witness ==
    /\ fpc = "counted"
    /\ FileExists
    /\ \E w \in DOMAIN ret.value : ret.value[w] = 2
    /\ Cardinality(DOMAIN ret.value) = 1
    /\ \E i \in DOMAIN Tokenize(text, keep_punctuation) :
          Tokenize(text, keep_punctuation)[i] \in StopwordSet

\* C2: filter_stopwords returns exactly the raw tokens that are non-empty
\* and not in the loaded stopword set, in their original order and with
\* their duplicates; empty text gives the empty sequence.
C2_FilterIsExactSubsequence ==
    Filtered =>
        LET raw == Tokenize(text, keep_punctuation)
            kept == {i \in DOMAIN raw :
                       raw[i] # <<>> /\ raw[i] \notin StopwordSet}
        IN  /\ IsSubsequenceAt(ret.value, raw, kept)
            /\ \A i \in DOMAIN ret.value :
                  ret.value[i] # <<>> /\ ret.value[i] \notin StopwordSet
            /\ (text = <<>> => ret.value = <<>>)

\* a stopword between two equal surviving tokens has been filtered out
C2_Witness ==
    /\ fpc = "filtered"
    /\ ret.exc = "None"
    /\ Len(Tokenize(text, keep_punctuation)) = 3
    /\ Len(ret.value) = 2
    /\ ret.value[1] = ret.value[2]
    /\ Tokenize(text, keep_punctuation)[2] \in StopwordSet

\* C3: load_stopwords of a language without a data file raises
\* FileNotFoundError naming the resolved path and returns no set; with a
\* data file it returns the set of the file's lines, lowercased and
\* stripped.
C3_LoadStopwords ==
    fpc = "loaded" =>
        IF FileExists
        THEN ret.exc = "None" /\ ret.value = StopwordSet
        ELSE /\ ret.exc = "FileNotFoundError"
             /\ ret.msg = DataFile(language)
             /\ "value" \notin DOMAIN ret

\* a language without a data file has been loaded
C3_Witness ==
    fpc = "loaded" /\ ~FileExists /\ ret.exc = "FileNotFoundError"

\* C7: without keep_punctuation, every 's before the end of the text or a
\* non-word character yields no token, an 's before a word character is no
\* possessive, and the text w's gives the tokens of the word w alone.
C7_PossessiveStrippedFirst ==
    (fpc \in {"filtered", "counted"} /\ ~keep_punctuation /\ FileExists) =>
        LET tokens == SelectSeq(MaximalRuns(Depossessed(text)),
                                LAMBDA w : w \notin StopwordSet)
            n == Len(text)
            w == SubSeq(text, 1, n - 2)
        IN  /\ fpc = "filtered" => ret.value = tokens
            /\ fpc = "counted" =>
                  DOMAIN ret.value = {tokens[i] : i \in DOMAIN tokens}
            /\ (/\ fpc = "filtered"
                /\ n >= 2
                /\ lower(SubSeq(text, n - 1, n)) = <<"'", "s">>
                /\ (w = <<>> \/ IsWord(w)))
               => ret = filter_stopwords(w, language, FALSE, files)

\* the text w's has been filtered to the single token w
C7_Witness ==
    /\ fpc = "filtered"
    /\ ~keep_punctuation
    /\ FileExists
    /\ Len(text) = 4
    /\ lower(SubSeq(text, 3, 4)) = <<"'", "s">>
    /\ IsWord(SubSeq(text, 1, 2))
    /\ ret.value = <<lower(SubSeq(text, 1, 2))>>

\* C8: with keep_punctuation, filter_stopwords returns the whitespace-
\* delimited tokens of the lowercased text, punctuation included, without
\* those exactly equal to a stopword.
C8_KeepPunctuation ==
    (Filtered /\ keep_punctuation) =>
        ret.value = SelectSeq(MaximalRuns(lower(text)),
                              LAMBDA w : w \notin StopwordSet)

\* a stopword with a comma attached has been retained with its comma
C8_Witness ==
    /\ fpc = "filtered"
    /\ keep_punctuation
    /\ FileExists
    /\ \E i \in DOMAIN ret.value :
          /\ Len(ret.value[i]) = 2
          /\ ret.value[i][2] = ","
          /\ <<ret.value[i][1]>> \in StopwordSet

\* C10: filtering the space-joined output of filter_stopwords again gives
\* the same tokens, and without keep_punctuation every returned token is
\* made of word characters only.
C10_FilterIdempotent ==
    /\ fpc = "refiltered" => ret.exc = "None" /\ ret.value = prev
    /\ (Filtered /\ ~keep_punctuation) =>
          \A i \in DOMAIN ret.value : IsWord(ret.value[i])

\* output with two tokens, cut out of a text with punctuation, was refiltered
C10_Witness ==
    /\ fpc = "refiltered"
    /\ ~keep_punctuation
    /\ Len(prev) = 2
    /\ Len(text) = 3

(* --------------------- claims about the generator --------------------- *)

IsLowercase(str) == \A i \in DOMAIN str : LowerChar(str[i]) = str[i]

AllLowercase(q) == \A i \in DOMAIN q : IsLowercase(q[i])

\* no line of q is lexicographically smaller than a line before it
IsSorted(q) == \A i, j \in DOMAIN q : i < j => ~StrLess(q[j], q[i])

NoDuplicates(q) == \A i, j \in DOMAIN q : i # j => q[i] # q[j]

\* p and q hold the same elements, each as many times
SameElements(p, q) ==
    /\ Len(p) = Len(q)
    /\ \A i \in DOMAIN p : Occurrences(p, p[i]) = Occurrences(q, p[i])

Range(q) == {q[i] : i \in DOMAIN q}

\* the languages the corpus exposes
Exposed == Range(corpus.fileids)

Exited == gpc = "exit"

Succeeded == Exited /\ status = 0

\* <language>.txt holds the corpus's words for the language, sorted
Complete(l) ==
    /\ files[l].exists
    /\ IsSorted(files[l].lines)
    /\ SameElements(files[l].lines, corpus.words[l])

SummaryPrinted ==
    \E i \in DOMAIN stdout : stdout[i][1] = "Successfully generated"

\* C4, as claimed: after a successful run every exposed language's file holds
\* only lowercase entries, is sorted and has no duplicate lines, whatever
\* the corpus returns.
C4_AsClaimed ==
    Succeeded =>
        \A l \in Exposed :
            /\ files[l].exists
            /\ AllLowercase(files[l].lines)
            /\ IsSorted(files[l].lines)
            /\ NoDuplicates(files[l].lines)

\* C4, amended: after a successful run every exposed language's file is
\* sorted and holds exactly the words the corpus returns, each as many times;
\* it is all lowercase, and free of duplicate lines, exactly when the
\* corpus's list is.
C4_SortedCopyOfCorpus ==
    Succeeded =>
        \A l \in Exposed :
            /\ files[l].exists
            /\ IsSorted(files[l].lines)
            /\ SameElements(files[l].lines, corpus.words[l])
            /\ AllLowercase(files[l].lines) <=> AllLowercase(corpus.words[l])
            /\ NoDuplicates(files[l].lines) <=> NoDuplicates(corpus.words[l])

\* a run has written an unsorted list with an uppercase word, sorted
C4_Witness ==
    /\ Succeeded
    /\ En \in Exposed
    /\ corpus.words[En] = << <<"a", "s">>, <<"S">> >>
    /\ files[En].lines = << <<"S">>, <<"a", "s">> >>

\* os.makedirs failed before the corpus was looked at
MakeDirsFailed == OtherError \in Range(stderr)

\* C5: started without the corpus (package or data missing), the generator
\* exits with a non-zero status after printing the corpus-not-found error
\* and the download hint, and writes no language file.
C5_MissingCorpusReported ==
    (Exited /\ ~(corpus.installed /\ corpus.available) /\ ~MakeDirsFailed) =>
        /\ status # 0
        /\ CorpusNotFound \in Range(stderr)
        /\ DownloadHint \in Range(stderr)
        /\ files = before

\* C6: a successful run leaves, for each exposed language, the file the
\* corpus determines, whatever the directory held before, and touches no
\* other file; run again after a successful run it leaves every file as it
\* was.
C6_RerunIdentical ==
    Succeeded =>
        /\ \A l \in Exposed : Complete(l)
        /\ \A l \in Languages \ Exposed : files[l] = before[l]
        /\ prevStatus = 0 => files = before

\* a second successful run has rewritten three files, one of two words
C6_Witness ==
    /\ Succeeded
    /\ runs = 2
    /\ prevStatus = 0
    /\ Len(opened) = 3
    /\ Len(files[En].lines) = 2

\* C9: the files are opened one language at a time in sorted order; a
\* failure at language L ends the run with status 1 and an error message,
\* without the summary, with the files of the languages before L complete
\* and those of the languages after L untouched; status 0 means every
\* language's file was written.
C9_HaltsOnFirstError ==
    /\ IsSorted(order) /\ NoDuplicates(order)
    /\ Len(opened) <= Len(order)
    /\ \A i \in DOMAIN opened : opened[i] = order[i]
    /\ Len(opened) \in {idx - 1, idx}
    /\ \A i \in 1..(idx - 1) : Complete(order[i])
    /\ \A i \in (idx + 1)..Len(order) : files[order[i]] = before[order[i]]
    /\ \A l \in Languages \ Range(opened) : files[l] = before[l]
    /\ Exited => status \in {0, 1}
    /\ (Exited /\ status = 1) => stderr # <<>> /\ ~SummaryPrinted
    /\ status = 0 =>
          /\ Exited
          /\ SummaryPrinted
          /\ Range(opened) = Exposed
          /\ \A l \in Exposed : Complete(l)

\* the write of the second of three languages has failed
C9_Witness ==
    /\ Exited
    /\ status = 1
    /\ Len(order) = 3
    /\ idx = 2
    /\ Len(opened) = 2
    /\ files[order[1]] # before[order[1]]
    /\ files[order[2]] # before[order[2]]
    /\ ~files[order[3]].exists

=============================================================================
